---- MODULE Spec2Model ----
(***************************************************************************)
(* A model of sqltap (src/sqltap/sqltap.py): the ProfilingSession that     *)
(* hooks query execution and delivers QueryStats records to a sink, and    *)
(* the QueryGroup / Reporter._process_stats aggregation of those records.  *)
(*                                                                         *)
(* Spec       the capture session: one ProfilingSession, a control thread  *)
(*            calling start()/stop(), query threads executing on their own *)
(*            connections, one consumer calling collect().                 *)
(* SpecStats  the aggregation: Reporter instances processing sequences of  *)
(*            QueryStats in one process (QueryGroup.ParamsID is shared).   *)
(* SpecMedian, SpecCallers, SpecParams                                     *)
(*            the aggregation of records that differ in their durations,   *)
(*            their stacks, their parameters.                              *)
(* SpecScoped the session used as a context manager or decorator.          *)
(* SpecHash   QueryStats._calculate_params_hash on parameter dicts.        *)
(***************************************************************************)
EXTENDS Integers, Sequences, FiniteSets, TLC

VARIABLES
    \* ---- ProfilingSession fields (sqltap.py:145-156)
    started,            \* self.started
    user_context_fn,    \* "None" or "fn": whether a context function was given
    collector,          \* self.collector: [present, items]; present = FALSE is None
    collect_fn,         \* self.collect_fn: "collector.put" or "user"
    \* ---- the environment of the session
    listeners,          \* registrations of the session's hooks on the engine, per event
    conn_start_time,    \* conn._sqltap_query_start_time per connection (NoAttr: not set)
    now,                \* the value the next time.time() call returns
    connPc,             \* per connection: "idle" or "executing"
    execOutcome,        \* per connection: how its last execute() ended for the host
    callbackCalls,      \* the records the caller-supplied collect_fn was called with
    \* ---- the control thread (start / stop) and the consumer (collect)
    ctlPc,              \* position of the control thread inside start() / stop()
    colPc,              \* position of the consumer inside collect()
    queries,            \* the list collect() fills and returns
    \* ---- history of the run, written only, never read by the program
    produced,           \* every QueryStats constructed by _after_exec, in order
    enqueued,           \* every record put on the internal queue, in order
    mark,               \* Len(enqueued) when the last collect() returned
    preTs,              \* per connection: what _before_exec wrote for the current execution
    written,            \* per connection: every timestamp _before_exec wrote on it
    returned,           \* every record a collect() call has returned, in order
    dispatchScope,      \* per connection: `scope` when the current execution was dispatched
    \* ---- the session as a context manager or decorator (sqltap.py:238-252)
    scope,              \* "none", "enter" (from __enter__ to __exit__), "exit" (in __exit__)
    bodyResult,         \* how the body of the with statement ended, while in __exit__
    scopeOutcome,       \* what the last with statement gave its caller
    \* ---- the aggregation (QueryGroup, Reporter._process_stats)
    ParamsID,           \* QueryGroup.ParamsID, the class attribute
    stats,              \* Reporter.stats, the records processed so far in this run
    query_groups,       \* the defaultdict(QueryGroup): text -> group, for texts seen
    all_group,          \* the all-in-one QueryGroup
    repPc,              \* "loop", or "done" once _process_stats has returned
    reports,            \* number of Reporter instances created so far
    sorted_groups,      \* Reporter._query_groups: the sorted list of groups
    seenHashes,         \* history: every params_hash an add() has observed in the process
    freshIds,           \* history: the ids given to new buckets, in the order of the giving
    \* ---- QueryStats._calculate_params_hash (sqltap.py:62-66)
    hparams,            \* two parameter dicts, each as its items in insertion order
    hvalue              \* the params_hash of the QueryStats built from each dict

vars == << started, user_context_fn, collector, collect_fn, listeners,
           conn_start_time, now, connPc, execOutcome, callbackCalls,
           ctlPc, colPc, queries,
           produced, enqueued, mark, preTs, written, returned, dispatchScope,
           scope, bodyResult, scopeOutcome,
           ParamsID, stats, query_groups, all_group, repPc, reports,
           sorted_groups, seenHashes, freshIds, hparams, hvalue >>

captureVars == << started, user_context_fn, collector, collect_fn, listeners,
                  conn_start_time, now, connPc, execOutcome, callbackCalls,
                  ctlPc, colPc, queries,
                  produced, enqueued, mark, preTs, written, returned,
                  dispatchScope, scope, bodyResult, scopeOutcome >>

statsVars == << ParamsID, stats, query_groups, all_group, repPc, reports,
                sorted_groups, seenHashes, freshIds >>

hashVars == << hparams, hvalue >>

scopeVars == << scope, bodyResult, scopeOutcome >>

----------------------------------------------------------------------------
(* Bounds of the model *)

\* time.time() readings taken in one behaviour
MaxClock == 4

\* the connections queries execute on, each used by one thread at a time
Conns == {"conn1", "conn2"}

\* "no such attribute" for conn._sqltap_query_start_time
NoAttr == -1

Max2(a, b) == IF a >= b THEN a ELSE b
Min2(a, b) == IF a <= b THEN a ELSE b

----------------------------------------------------------------------------
(* ProfilingSession *)

\* a session that makes its queue whatever the collect_fn argument (mutant)
SessionCollector_always(collect_fn_arg) ==
    [present |-> TRUE, items |-> << >>]

\* ProfilingSession.__init__: the sink chosen by the collect_fn argument
SessionCollector(collect_fn_arg) ==
    IF collect_fn_arg
    THEN [present |-> FALSE, items |-> << >>]
    ELSE [present |-> TRUE, items |-> << >>]

SessionCollectFn(collect_fn_arg) ==
    IF collect_fn_arg THEN "user" ELSE "collector.put"

\* the exceptions the session raises (all are AssertionError in the source)
NoExc == [type |-> "none", msg |-> ""]
AlreadyStarted ==
    [type |-> "AssertionError", msg |-> "Profiling session is already started!"]
AlreadyStopped ==
    [type |-> "AssertionError", msg |-> "Profiling session is already stopped"]
OwnCollectFn ==
    [type |-> "AssertionError",
     msg |-> "Can't call collect when you've registered your own collect_fn!"]

\* the spec's error kinds, as the exceptions of the source that carry them
StateError == {AlreadyStarted, AlreadyStopped}
ConfigurationError == {OwnCollectFn}

\* inputs of one execution: what the results object is like, and whether the
\* caller's functions raise when called
ResultKinds == {"ok", "unhashable_param"}
Behaviours == {"returns", "raises"}

\* how the body of a with statement (or a decorated function) can end
NoResult == [kind |-> "none", value |-> "None"]
BodyResults == { [kind |-> "return", value |-> "rows"],
                 [kind |-> "raise", value |-> "ValueError"] }

InitCapture ==
    /\ started = FALSE
    /\ user_context_fn \in {"None", "fn"}
    /\ \E arg \in BOOLEAN :
          /\ collector = SessionCollector(arg)
          /\ collect_fn = SessionCollectFn(arg)
    /\ listeners = [before_execute |-> 0, after_execute |-> 0]
    /\ conn_start_time = [c \in Conns |-> NoAttr]
    /\ now = 1
    /\ connPc = [c \in Conns |-> "idle"]
    /\ execOutcome = [c \in Conns |-> "none"]
    /\ callbackCalls = << >>
    /\ ctlPc = "idle"
    /\ colPc = "idle"
    /\ queries = << >>
    /\ produced = << >>
    /\ enqueued = << >>
    /\ mark = 0
    /\ preTs = [c \in Conns |-> NoAttr]
    /\ written = [c \in Conns |-> {}]
    /\ returned = << >>
    /\ dispatchScope = [c \in Conns |-> "none"]
    /\ scope = "none"
    /\ bodyResult = NoResult
    /\ scopeOutcome = NoResult

\* what the control thread's steps leave alone
ctlFrame == << user_context_fn, collector, collect_fn,
               conn_start_time, now, connPc, execOutcome, callbackCalls,
               colPc, queries, produced, enqueued, mark, preTs, written,
               returned, dispatchScope >>

\* ---- start() and stop(), sqltap.py:210-236

\* lines 216-219 of start(): the check, then the raise of line 217 or the
\* assignment of line 219
start_call ==
    /\ ctlPc = "idle"
    /\ IF started = TRUE
       THEN /\ ctlPc' = "start_raise"
            /\ UNCHANGED started
       ELSE /\ started' = TRUE
            /\ ctlPc' = "start_listen_before"
    /\ UNCHANGED << listeners, ctlFrame, statsVars, hashVars >>

\* lines 230-233 of stop(): the check, then the raise of line 231 or the
\* assignment of line 233
stop_call ==
    /\ ctlPc = "idle"
    /\ IF started = FALSE
       THEN /\ ctlPc' = "stop_raise"
            /\ UNCHANGED started
       ELSE /\ started' = FALSE
            /\ ctlPc' = "stop_remove_before"
    /\ UNCHANGED << listeners, ctlFrame, statsVars, hashVars >>

\* start() without the check of line 216 (mutant)
start_unchecked ==
    /\ scope = "none"
    /\ ctlPc = "idle"
    /\ started' = TRUE
    /\ ctlPc' = "start_listen_before"
    /\ UNCHANGED << listeners, ctlFrame, statsVars, hashVars, scopeVars >>

\* session.start(), called by the host directly
start ==
    /\ scope = "none"
    /\ start_call
    /\ UNCHANGED scopeVars

\* sqlalchemy.event.listen(self.engine, "before_execute", self._before_exec)
start_listen_before ==
    /\ ctlPc = "start_listen_before"
    /\ listeners' = [listeners EXCEPT !.before_execute = @ + 1]
    /\ ctlPc' = "start_listen_after"
    /\ UNCHANGED << started, ctlFrame, statsVars, hashVars, scopeVars >>

\* sqlalchemy.event.listen(self.engine, "after_execute", self._after_exec)
start_listen_after ==
    /\ ctlPc = "start_listen_after"
    /\ listeners' = [listeners EXCEPT !.after_execute = @ + 1]
    /\ ctlPc' = "idle"
    /\ UNCHANGED << started, ctlFrame, statsVars, hashVars, scopeVars >>

\* session.stop(), called by the host directly
stop ==
    /\ scope = "none"
    /\ stop_call
    /\ UNCHANGED scopeVars

\* sqlalchemy.event.remove(self.engine, "before_execute", self._before_exec)
stop_remove_before ==
    /\ ctlPc = "stop_remove_before"
    /\ listeners' = [listeners EXCEPT !.before_execute = @ - 1]
    /\ ctlPc' = "stop_remove_after"
    /\ UNCHANGED << started, ctlFrame, statsVars, hashVars, scopeVars >>

\* stop() returning with the after_execute listener left on the engine (mutant)
stop_remove_after_left ==
    /\ ctlPc = "stop_remove_after"
    /\ ctlPc' = "idle"
    /\ UNCHANGED << started, listeners, ctlFrame, statsVars, hashVars, scopeVars >>

\* sqlalchemy.event.remove(self.engine, "after_execute", self._after_exec)
stop_remove_after ==
    /\ ctlPc = "stop_remove_after"
    /\ listeners' = [listeners EXCEPT !.after_execute = @ - 1]
    /\ ctlPc' = "idle"
    /\ UNCHANGED << started, ctlFrame, statsVars, hashVars, scopeVars >>

\* the AssertionError of line 217 or 231 reaches the caller of start() / stop()
start_stop_raise ==
    /\ scope = "none"
    /\ ctlPc \in {"start_raise", "stop_raise"}
    /\ ctlPc' = "idle"
    /\ UNCHANGED << started, listeners, ctlFrame, statsVars, hashVars, scopeVars >>

\* ---- the context manager and the decorator, sqltap.py:238-252

\* `with session:` (and the decorated function of __call__, which is
\* `with self: return fn(*args, **kwargs)`): __enter__ calls self.start()
with_enter ==
    /\ scope = "none"
    /\ start_call
    /\ scope' = "enter"
    /\ bodyResult' = NoResult
    /\ scopeOutcome' = NoResult

\* __exit__ skipped when the body raises, as a `with` written without
\* try/finally would do (mutant)
with_exit_unless_raised(result) ==
    /\ scope = "enter"
    /\ ctlPc = "idle"
    /\ IF result.kind = "raise"
       THEN UNCHANGED << started, ctlPc, listeners, ctlFrame, statsVars, hashVars >>
       ELSE stop_call
    /\ scope' = "exit"
    /\ bodyResult' = result
    /\ UNCHANGED scopeOutcome

\* the body ends with result (a value returned or an exception raised); the
\* with statement calls __exit__, which calls self.stop() (lines 243-245)
with_exit(result) ==
    /\ scope = "enter"
    /\ stop_call
    /\ scope' = "exit"
    /\ bodyResult' = result
    /\ UNCHANGED scopeOutcome

\* __exit__ returns None (line 245 has no return): the with statement re-raises
\* the body's exception, or the decorated function returns the body's value
with_leave ==
    /\ scope = "exit"
    /\ ctlPc = "idle"
    /\ scope' = "none"
    /\ scopeOutcome' = bodyResult
    /\ bodyResult' = NoResult
    /\ UNCHANGED << started, listeners, ctlPc, ctlFrame, statsVars, hashVars >>

\* ---- the hooks, sqltap.py:158-190

\* _before_exec (line 160): the value stored on the connection, when the hook
\* is called n times (once per registration) and the clock reads t at the first
BeforeExecWrite(t, n) == t + n - 1

\* the engine dispatches before_execute on connection c to the listeners
\* registered at that moment; _before_exec stores time.time() on the connection
before_execute(c) ==
    /\ connPc[c] = "idle"
    /\ now + listeners.before_execute < MaxClock
    /\ connPc' = [connPc EXCEPT ![c] = "executing"]
    /\ execOutcome' = [execOutcome EXCEPT ![c] = "none"]
    /\ dispatchScope' = [dispatchScope EXCEPT ![c] = scope]
    /\ IF listeners.before_execute > 0
       THEN LET t == BeforeExecWrite(now, listeners.before_execute) IN
            /\ conn_start_time' = [conn_start_time EXCEPT ![c] = t]
            /\ now' = now + listeners.before_execute
            /\ preTs' = [preTs EXCEPT ![c] = t]
            /\ written' = [written EXCEPT ![c] = @ \cup {t}]
       ELSE UNCHANGED << conn_start_time, now, preTs, written >>
    /\ UNCHANGED << started, user_context_fn, collector, collect_fn, listeners,
                    callbackCalls, ctlPc, colPc, queries,
                    produced, enqueued, mark, returned, scopeVars >>
    /\ UNCHANGED << statsVars, hashVars >>

\* the start time kept in one variable shared by all connections: the last
\* value any _before_exec wrote (mutant)
StartTimeOf_shared(c, end_time) ==
    LET ts == { conn_start_time[x] : x \in Conns } \ {NoAttr}
    IN IF ts = {} THEN end_time ELSE CHOOSE t \in ts : \A u \in ts : u <= t

\* _after_exec (line 166): getattr(conn, '_sqltap_query_start_time', end_time)
StartTimeOf(c, end_time) ==
    IF conn_start_time[c] # NoAttr THEN conn_start_time[c] ELSE end_time

\* _after_exec (lines 169-171): the context stored with the record
UserContext == IF user_context_fn = "None" THEN "None" ELSE "context"

\* QueryStats.__init__ (lines 49-60), the fields the session decides
QueryStats(c, start_time, end_time, context) ==
    [conn |-> c, start_time |-> start_time, end_time |-> end_time,
     duration |-> end_time - start_time, user_context |-> context]

\* _after_exec has no exception handler but the one around clause.compile
\* (lines 173-176): the first callee that raises ends the hook. The callee that
\* raises, in the order of the calls, or "none". A parameter value that is not
\* hashable makes hash() raise in QueryStats._calculate_params_hash (line 65).
HookFault(results, ctx, cb) ==
    IF user_context_fn = "fn" /\ ctx = "raises" THEN "user_context_fn"
    ELSE IF results = "unhashable_param" THEN "QueryStats"
    ELSE IF collect_fn = "user" /\ cb = "raises" THEN "collect_fn"
    ELSE "none"

\* whether the hook gets as far as line 184, self.collect_fn(qstats)
ReachesCollectFn(fault) == fault \in {"none", "collect_fn"}

\* what the executor's caller sees of an execution whose hook ended with fault:
\* a listener's exception propagates out of the dispatch into execute()
Outcome(fault) == IF fault = "none" THEN "returned" ELSE "raised"

\* the engine dispatches after_execute on connection c; _after_exec builds the
\* record and hands it to self.collect_fn
after_execute(c, results, ctx, cb) ==
    /\ connPc[c] = "executing"
    /\ connPc' = [connPc EXCEPT ![c] = "idle"]
    /\ preTs' = [preTs EXCEPT ![c] = NoAttr]
    /\ IF listeners.after_execute > 0
       THEN LET end_time == now
                fault == HookFault(results, ctx, cb)
                qstats == QueryStats(c, StartTimeOf(c, end_time), end_time,
                                     UserContext)
            IN
            /\ now' = now + 1
            /\ execOutcome' = [execOutcome EXCEPT ![c] = Outcome(fault)]
            /\ IF ReachesCollectFn(fault)
               THEN /\ produced' = Append(produced, qstats)
                    /\ IF collect_fn = "collector.put"
                       THEN /\ collector' = [collector EXCEPT
                                               !.items = Append(@, qstats)]
                            /\ enqueued' = Append(enqueued, qstats)
                            /\ UNCHANGED callbackCalls
                       ELSE /\ callbackCalls' = Append(callbackCalls, qstats)
                            /\ UNCHANGED << collector, enqueued >>
               ELSE UNCHANGED << produced, collector, enqueued, callbackCalls >>
       ELSE /\ execOutcome' = [execOutcome EXCEPT ![c] = "returned"]
            /\ UNCHANGED << now, produced, collector, enqueued, callbackCalls >>
    /\ UNCHANGED << started, user_context_fn, collect_fn, listeners,
                    conn_start_time, ctlPc, colPc, queries, mark, written,
                    returned, dispatchScope, scopeVars >>
    /\ UNCHANGED << statsVars, hashVars >>

\* ---- collect(), sqltap.py:192-208

\* what the consumer's steps leave alone
colFrame == << started, user_context_fn, collect_fn, listeners,
               conn_start_time, now, connPc, execOutcome, callbackCalls,
               ctlPc, produced, enqueued, preTs, written, dispatchScope,
               scope, bodyResult, scopeOutcome >>

\* lines 197-201: the check of the collector, then the raise of line 198 or
\* queries = []
collect ==
    /\ colPc = "idle"
    /\ IF ~ collector.present
       THEN /\ colPc' = "collect_raise"
            /\ UNCHANGED queries
       ELSE /\ queries' = << >>
            /\ colPc' = "drain"
    /\ UNCHANGED << collector, mark, returned, colFrame, statsVars, hashVars >>

\* get() on a LIFO queue: the newest record first (mutant)
collect_get_lifo ==
    /\ colPc = "drain"
    /\ collector.items # << >>
    /\ queries' = Append(queries, collector.items[Len(collector.items)])
    /\ collector' = [collector EXCEPT !.items = SubSeq(@, 1, Len(@) - 1)]
    /\ UNCHANGED << colPc, mark, returned, colFrame, statsVars, hashVars >>

\* a get() that leaves the record on the queue (mutant)
collect_get_peek ==
    /\ colPc = "drain"
    /\ collector.items # << >>
    /\ queries' = Append(queries, Head(collector.items))
    /\ UNCHANGED << collector, colPc, mark, returned, colFrame, statsVars, hashVars >>

\* line 204: queries.append(self.collector.get(block=False)), the queue not empty
collect_get ==
    /\ colPc = "drain"
    /\ collector.items # << >>
    /\ queries' = Append(queries, Head(collector.items))
    /\ collector' = [collector EXCEPT !.items = Tail(@)]
    /\ UNCHANGED << colPc, mark, returned, colFrame, statsVars, hashVars >>

\* lines 205-208: get() raises queue.Empty, the loop ends, return queries (the
\* list stays the caller's until the next call)
collect_return ==
    /\ colPc = "drain"
    /\ collector.items = << >>
    /\ colPc' = "idle"
    /\ mark' = Len(enqueued)
    /\ returned' = returned \o queries
    /\ UNCHANGED << collector, queries, colFrame, statsVars, hashVars >>

\* the AssertionError of line 198 reaches the caller of collect()
collect_raise ==
    /\ colPc = "collect_raise"
    /\ colPc' = "idle"
    /\ UNCHANGED << collector, queries, mark, returned, colFrame, statsVars, hashVars >>

----------------------------------------------------------------------------
(* QueryGroup and Reporter._process_stats *)

\* bounds of the aggregation
\* records handed to one Reporter, in SpecStats
MaxStats == 3
\* records handed to one Reporter, in SpecMedian
MaxMedianStats == 4
\* largest duration of a record, in SpecStats
MaxDur == 1
\* largest duration of a record, in SpecMedian
MaxMedianDur == 5
\* Reporter instances created in one process
MaxReports == 2

\* q.params_id = None (QueryStats.__init__, line 53); ids start at 2
None == 0
\* sys.maxsize (line 268), of a 32-bit build
sys_maxsize == 2147483647

RECURSIVE GCD(_, _)
GCD(a, b) == IF b = 0 THEN a ELSE GCD(b, a % b)

\* a / b under `from __future__ import division` (line 1): the exact quotient,
\* as a fraction in lowest terms
TrueDiv(a, b) ==
    LET g == GCD(a, b) IN [num |-> a \div g, den |-> b \div g]

\* a frame of traceback.extract_stack(): (filename, lineno, name, line);
\* the filename as its path components
Frame(filename, lineno, name) ==
    [filename |-> filename, lineno |-> lineno, name |-> name]
NoFrame == Frame(<< >>, 0, "None")

AppFrame == Frame(<<"app", "views.py">>, 10, "index")
HelperFrame == Frame(<<"app", "models.py">>, 30, "load")
LibFrame == Frame(<<"site-packages", "sqlalchemy", "engine", "base.py">>, 20, "execute")

\* traceback.format_list(stack), joined (line 403): one entry per frame, made of
\* the frame's file, line and function
format_frame(frame) ==
    << "File", frame.filename, "line", frame.lineno, "in", frame.name >>
format_stack(stack) == [i \in 1..Len(stack) |-> format_frame(stack[i])]

\* 'sqlalchemy' in frame[0] (line 280): a substring test on the path; the
\* path components of the model that contain the substring
HasSqlalchemy(filename) ==
    \E i \in 1..Len(filename) : filename[i] \in {"sqlalchemy", "flask_sqlalchemy"}

\* the stack scanned from its first frame: the outermost frame outside
\* sqlalchemy (mutant)
find_user_fn_outermost(stack) ==
    LET user == { i \in 1..Len(stack) : ~ HasSqlalchemy(stack[i].filename) }
    IN IF user = {} THEN NoFrame
       ELSE stack[CHOOSE i \in user : \A j \in user : i <= j]

\* QueryGroup.find_user_fn (lines 274-281): the last frame outside sqlalchemy,
\* None when the loop ends without returning
RECURSIVE find_user_fn(_)
find_user_fn(stack) ==
    IF stack = << >> THEN NoFrame
    ELSE IF ~ HasSqlalchemy(stack[Len(stack)].filename) THEN stack[Len(stack)]
    ELSE find_user_fn(SubSeq(stack, 1, Len(stack) - 1))

\* format_sql (lines 27-31): sqlparse's output for the text
format_sql(text) == << "sqlparse.format", text >>

\* a group whose min starts at 0, as its max does (mutant)
QueryGroup_min0 ==
    [queries |-> << >>, stacks |-> << >>, params_hashes |-> << >>,
     callers |-> << >>, max |-> 0, min |-> 0, sum |-> 0,
     rowcounts |-> 0, mean |-> TrueDiv(0, 1), median |-> TrueDiv(0, 1),
     text |-> << >>, formatted_text |-> << >>, first_word |-> ""]

\* QueryGroup.__init__ (lines 262-272); text is set by the first add
QueryGroup ==
    [queries |-> << >>, stacks |-> << >>, params_hashes |-> << >>,
     callers |-> << >>, max |-> 0, min |-> sys_maxsize, sum |-> 0,
     rowcounts |-> 0, mean |-> TrueDiv(0, 1), median |-> TrueDiv(0, 1),
     text |-> << >>, formatted_text |-> << >>, first_word |-> ""]

\* dict.get / defaultdict lookup with a default
Get(f, k, default) == IF k \in DOMAIN f THEN f[k] ELSE default
\* f[k] = v on a dict
Put(f, k, v) == [x \in DOMAIN f \cup {k} |-> IF x = k THEN v ELSE f[x]]

\* line 304: self.mean = self.sum / len(self.queries)
Mean(sum, n) == TrueDiv(sum, n)

\* the occurrence count set to 1 whenever the stack text is seen (mutant)
CountStack_once(stacks, stack_text) == Put(stacks, stack_text, 1)

\* line 289: self.stacks[q.stack_text] += 1, on a defaultdict(int)
CountStack(stacks, stack_text) ==
    Put(stacks, stack_text, Get(stacks, stack_text, 0) + 1)

\* `self.ParamsID += 1` written for `QueryGroup.ParamsID += 1`: the increment
\* lands on an attribute of the group, the class counter stays (mutant)
AddParams_instance_counter(g, q, counter) ==
    LET old == Get(g.params_hashes, q.params_hash,
                   [count |-> 0, params_id |-> None, params |-> q.params])
        fresh == old.params_id = None
        params_id == IF fresh THEN counter + Cardinality(DOMAIN g.params_hashes) + 1
                     ELSE old.params_id
    IN [bucket |-> [count |-> old.count + 1, params_id |-> params_id,
                    params |-> old.params],
        ParamsID |-> counter,
        fresh |-> fresh]

\* the bucket's sample replaced by the params of every record added (mutant)
AddParams_last_wins(g, q, counter) ==
    LET old == Get(g.params_hashes, q.params_hash,
                   [count |-> 0, params_id |-> None, params |-> q.params])
        fresh == old.params_id = None
        counter2 == IF fresh THEN counter + 1 ELSE counter
        params_id == IF fresh THEN counter2 ELSE old.params_id
    IN [bucket |-> [count |-> old.count + 1, params_id |-> params_id,
                    params |-> q.params],
        ParamsID |-> counter2,
        fresh |-> fresh]

\* lines 292-297: the bucket of q's hash after the add, and the counter.
\* heap is the list of record objects, i the index of q in it.
AddParams(g, q, counter) ==
    LET old == Get(g.params_hashes, q.params_hash,
                   [count |-> 0, params_id |-> None, params |-> q.params])
        fresh == old.params_id = None
        counter2 == IF fresh THEN counter + 1 ELSE counter
        params_id == IF fresh THEN counter2 ELSE old.params_id
    IN [bucket |-> [count |-> old.count + 1, params_id |-> params_id,
                    params |-> old.params],
        ParamsID |-> counter2,
        fresh |-> fresh]

\* QueryGroup.add (lines 283-304) of the record heap[i] to group g, with the
\* class counter at `counter`: the group, the counter and the record afterwards
add(g, heap, i, counter) ==
    LET q == heap[i]
        first == g.queries = << >>
        p == AddParams(g, q, counter)
        queries2 == Append(g.queries, i)
        sum2 == g.sum + q.duration
    IN [group |->
          [queries |-> queries2,
           stacks |-> CountStack(g.stacks, q.stack_text),
           callers |-> Put(g.callers, q.stack_text, find_user_fn(q.stack)),
           params_hashes |-> Put(g.params_hashes, q.params_hash, p.bucket),
           max |-> Max2(g.max, q.duration),
           min |-> Min2(g.min, q.duration),
           sum |-> sum2,
           rowcounts |-> g.rowcounts + q.rowcount,
           mean |-> Mean(sum2, Len(queries2)),
           median |-> g.median,
           text |-> IF first THEN q.text ELSE g.text,
           formatted_text |-> IF first THEN format_sql(q.text) ELSE g.formatted_text,
           first_word |-> IF first THEN Head(q.text) ELSE g.first_word],
        ParamsID |-> p.ParamsID,
        q |-> [q EXCEPT !.params_id =
                  IF q.params_id # None THEN q.params_id ELSE p.bucket.params_id],
        fresh |-> p.fresh]

\* sorted(..., key=lambda q: q.duration, reverse=True) (lines 307-308): a
\* stable sort, by insertion; qs are indices into heap
RECURSIVE InsertDesc(_, _, _)
InsertDesc(sorted, i, heap) ==
    IF sorted = << >> THEN << i >>
    ELSE IF heap[Head(sorted)].duration >= heap[i].duration
         THEN << Head(sorted) >> \o InsertDesc(Tail(sorted), i, heap)
         ELSE << i >> \o sorted

RECURSIVE SortDesc(_, _)
SortDesc(qs, heap) ==
    IF qs = << >> THEN << >>
    ELSE InsertDesc(SortDesc(SubSeq(qs, 1, Len(qs) - 1), heap), qs[Len(qs)], heap)

\* calc_median taking the middle of the members as they were added, unsorted
\* (mutant)
calc_median_unsorted(g, heap) ==
    LET queries_ == g.queries
        length == Len(queries_)
    IN IF length % 2 = 0
       THEN LET x1 == heap[queries_[(length \div 2) + 1]].duration
                x2 == heap[queries_[length \div 2]].duration
            IN TrueDiv(x1 + x2, 2)
       ELSE TrueDiv(heap[queries_[(length \div 2) + 1]].duration, 1)

\* QueryGroup.calc_median (lines 306-315): the median field afterwards
calc_median(g, heap) ==
    LET queries_ == SortDesc(g.queries, heap)
        length == Len(queries_)
    IN IF length % 2 = 0
       THEN LET x1 == heap[queries_[(length \div 2) + 1]].duration
                x2 == heap[queries_[length \div 2]].duration
            IN TrueDiv(x1 + x2, 2)
       ELSE TrueDiv(heap[queries_[(length \div 2) + 1]].duration, 1)

\* ---- Reporter (lines 341-350) and _process_stats (lines 391-417)

\* the QueryStats objects a caller hands to a Reporter: as collect() returns
\* them, params_id None and no stack_text yet
Texts == { <<"SELECT", "a">>, <<"INSERT", "b">> }
ParamSets == { [params |-> "p1", params_hash |-> 11],
               [params |-> "p2", params_hash |-> 22] }
Stacks == { << AppFrame, LibFrame >> }

InputStats(text, stack, duration, ps) ==
    [text |-> text, stack |-> stack, duration |-> duration, rowcount |-> 1,
     params |-> ps.params, params_hash |-> ps.params_hash, params_id |-> None]

StatsInputs ==
    { InputStats(t, s, d, ps) :
        t \in Texts, s \in Stacks, d \in 0..MaxDur, ps \in ParamSets }

\* stacks as traceback.extract_stack() gives them, outermost frame first: the
\* host's frames then the library's; a library frame calling back into the
\* host; only library frames; and no frame at all
StackInputs == { << AppFrame, LibFrame >>,
                 << AppFrame, HelperFrame, LibFrame >>,
                 << AppFrame, LibFrame, HelperFrame, LibFrame >>,
                 << LibFrame >>,
                 << >> }

CallerInputs ==
    { InputStats(<<"SELECT", "a">>, s, 0, [params |-> "p1", params_hash |-> 11]) :
        s \in StackInputs }

\* parameter sets of which two have the same params_hash
CollidingParamSets == { [params |-> "p1", params_hash |-> 11],
                        [params |-> "p2", params_hash |-> 22],
                        [params |-> "p3", params_hash |-> 11] }

ParamInputs ==
    { InputStats(t, << AppFrame, LibFrame >>, 0, ps) :
        t \in Texts, ps \in CollidingParamSets }

MedianInputs ==
    { InputStats(<<"SELECT", "a">>, << AppFrame, LibFrame >>, d,
                 [params |-> "p1", params_hash |-> 11]) : d \in 0..MaxMedianDur }

\* line 402-403: qstats.stack_text = ''.join(traceback.format_list(...)).strip()
WithStackText(q) ==
    [text |-> q.text, stack |-> q.stack, duration |-> q.duration,
     rowcount |-> q.rowcount, params |-> q.params,
     params_hash |-> q.params_hash, params_id |-> q.params_id,
     stack_text |-> format_stack(q.stack)]

InitReporter ==
    /\ ParamsID = 1
    /\ stats = << >>
    /\ query_groups = << >>
    /\ all_group = QueryGroup
    /\ repPc = "loop"
    /\ reports = 1
    /\ sorted_groups = << >>
    /\ seenHashes = {}
    /\ freshIds = << >>

\* records grouped by the first word of their text (mutant)
GroupKey_first_word(q) == << Head(q.text) >>

\* line 405: the key of the record's group, str(qstats.text)
GroupKey(q) == q.text

\* the id line 295 gave a new bucket in the add with result r, if it made one
FreshId(r) ==
    IF r.fresh THEN << r.group.params_hashes[r.q.params_hash].params_id >>
    ELSE << >>

\* one turn of the loop of lines 401-407, for the next record of self.stats
process_record(q_in, maxlen) ==
    /\ repPc = "loop"
    /\ Len(stats) < maxlen
    /\ LET heap1 == Append(stats, WithStackText(q_in))
           i == Len(heap1)
           r1 == add(Get(query_groups, GroupKey(q_in), QueryGroup), heap1, i, ParamsID)
           heap2 == [heap1 EXCEPT ![i] = r1.q]
           r2 == add(all_group, heap2, i, r1.ParamsID)
       IN /\ stats' = [heap2 EXCEPT ![i] = r2.q]
          /\ query_groups' = Put(query_groups, GroupKey(q_in), r1.group)
          /\ all_group' = r2.group
          /\ ParamsID' = r2.ParamsID
          /\ freshIds' = freshIds \o FreshId(r1) \o FreshId(r2)
    /\ seenHashes' = seenHashes \cup {q_in.params_hash}
    /\ UNCHANGED << repPc, reports, sorted_groups >>
    /\ UNCHANGED << captureVars, hashVars >>

\* sorted(query_groups.values(), key=lambda g: g.sum, reverse=True) (lines
\* 409-410): the orders of the keys a sort by descending sum can give (groups of
\* equal sum keep the dict's order, which is any)
SortedBySum(groups) ==
    LET keys == DOMAIN groups
        n == Cardinality(keys)
    IN { s \in [1..n -> keys] :
           /\ \A i, j \in 1..n : i # j => s[i] # s[j]
           /\ \A i, j \in 1..n : i < j => groups[s[i]].sum >= groups[s[j]].sum }

\* the groups calc_median is called on (lines 413-414): those of query_groups
Finalized(groups, heap) ==
    [t \in DOMAIN groups |-> [groups[t] EXCEPT !.median = calc_median(groups[t], heap)]]

\* lines 409-417, after the loop
finish ==
    /\ repPc = "loop"
    /\ \E s \in SortedBySum(query_groups) : sorted_groups' = s
    /\ query_groups' = Finalized(query_groups, stats)
    /\ repPc' = "done"
    /\ UNCHANGED << ParamsID, stats, all_group, reports, seenHashes, freshIds >>
    /\ UNCHANGED << captureVars, hashVars >>

\* another Reporter is created in the same process: QueryGroup.ParamsID stays
new_report ==
    /\ repPc = "done"
    /\ reports < MaxReports
    /\ stats' = << >>
    /\ query_groups' = << >>
    /\ all_group' = QueryGroup
    /\ sorted_groups' = << >>
    /\ repPc' = "loop"
    /\ reports' = reports + 1
    /\ UNCHANGED << ParamsID, seenHashes, freshIds >>
    /\ UNCHANGED << captureVars, hashVars >>

----------------------------------------------------------------------------
(* QueryStats._calculate_params_hash, sqltap.py:62-66 *)

\* Python integers are unbounded; the model keeps the low IntLimbs limbs of
\* 16 bits of their two's complement form, least significant first, the top
\* bit of the last limb being the sign. The products of line 65 fit: a hash has
\* at most 64 bits, 10009 has 14.
IntLimbs == 5
LimbBits == 16
LimbBase == 2 ^ LimbBits

\* the constants of lines 65 and 66
HashMultiplier == 10009
HashShift == 32

RECURSIVE Limbs(_, _)
Limbs(n, k) ==
    IF k = 0 THEN << >> ELSE << n % LimbBase >> \o Limbs(n \div LimbBase, k - 1)
\* the Python integer n
PyInt(n) == Limbs(n, IntLimbs)

\* x ^ y on two limbs
RECURSIVE XorLimb(_, _)
XorLimb(x, y) ==
    IF x = 0 /\ y = 0 THEN 0
    ELSE ((x + y) % 2) + 2 * XorLimb(x \div 2, y \div 2)

\* a ^ b
PyXor(a, b) == [i \in 1..IntLimbs |-> XorLimb(a[i], b[i])]
\* the limb of the sign of a: all ones when a < 0
SignLimb(a) == IF a[IntLimbs] >= LimbBase \div 2 THEN LimbBase - 1 ELSE 0
\* a >> k, for k a whole number of limbs: the sign fills in from the left
PyShiftRight(a, k) ==
    LET n == k \div LimbBits
    IN [i \in 1..IntLimbs |-> IF i + n <= IntLimbs THEN a[i + n] ELSE SignLimb(a)]
\* a << k, for k a whole number of limbs
PyShiftLeft(a, k) ==
    LET n == k \div LimbBits
    IN [i \in 1..IntLimbs |-> IF i > n THEN a[i - n] ELSE 0]
\* a & ((1 << k) - 1), for k a whole number of limbs
PyMaskLow(a, k) ==
    LET n == k \div LimbBits
    IN [i \in 1..IntLimbs |-> IF i <= n THEN a[i] ELSE 0]

\* m * a for a small m >= 0, limb by limb from position i with the carry c
RECURSIVE TimesFrom(_, _, _, _)
TimesFrom(m, a, i, c) ==
    IF i > IntLimbs THEN << >>
    ELSE << (m * a[i] + c) % LimbBase >>
         \o TimesFrom(m, a, i + 1, (m * a[i] + c) \div LimbBase)
PyTimes(m, a) == TimesFrom(m, a, 1, 0)

\* the parameter names of the model, in the order sorted() gives them
ParamKeys == << "a", "b" >>
\* the parameter values of the model, and what hash() gives for each: hash(n)
\* is n for an int or long that fits the hash type, but hash(-1) is -2
ParamValues == { "5", "-1", "3 * 2**48", "-3 * 2**48" }
hash(v) ==
    CASE v = "5" -> PyInt(5)
      [] v = "-1" -> PyInt(-2)
      [] v = "3 * 2**48" -> PyShiftLeft(PyInt(3), 48)
      [] v = "-3 * 2**48" -> PyShiftLeft(PyInt(-3), 48)

\* a dict as the sequence of its items [key, value] in insertion order
DictKeys(d) == { d[i].key : i \in 1..Len(d) }
DictGet(d, k) == (CHOOSE i \in 1..Len(d) : d[i].key = k)
\* d[k] = v: a key already there keeps its place
DictSet(d, k, v) ==
    IF k \in DictKeys(d)
    THEN [i \in 1..Len(d) |-> IF d[i].key = k THEN [key |-> k, value |-> v] ELSE d[i]]
    ELSE Append(d, [key |-> k, value |-> v])

\* sorted(params.iterkeys()), line 64
SortedKeys(d) == SelectSeq(ParamKeys, LAMBDA k : k \in DictKeys(d))

\* lines 63-65: h after the loop over the first n sorted keys
RECURSIVE HashLoop(_, _, _)
HashLoop(d, keys, n) ==
    IF n = 0 THEN PyInt(0)
    ELSE PyXor(HashLoop(d, keys, n - 1),
               PyTimes(HashMultiplier, hash(d[DictGet(d, keys[n])].value)))

\* the hash returned without the mask of line 66 (mutant)
calculate_params_hash_unmasked(params) ==
    LET h == HashLoop(params, SortedKeys(params), Len(SortedKeys(params)))
    IN PyXor(h, PyShiftRight(h, HashShift))

\* QueryStats._calculate_params_hash (lines 62-66)
calculate_params_hash(params) ==
    LET h == HashLoop(params, SortedKeys(params), Len(SortedKeys(params)))
    IN PyMaskLow(PyXor(h, PyShiftRight(h, HashShift)), HashShift)

\* the two dicts start empty: QueryStats(..., params={}) has params_hash 0
InitHash ==
    /\ hparams = [d \in {"first", "second"} |-> << >>]
    /\ hvalue = [d \in {"first", "second"} |-> calculate_params_hash(<< >>)]

\* params[k] = v on one of the dicts (_extract_parameters_from_results builds
\* the dict by update(), lines 186-190), and the QueryStats made from it
\* (line 60): its params_hash
set_param(which, k, v) ==
    /\ hparams' = [hparams EXCEPT ![which] = DictSet(@, k, v)]
    /\ hvalue' = [hvalue EXCEPT ![which] = calculate_params_hash(hparams'[which])]
    /\ UNCHANGED << captureVars, statsVars >>

----------------------------------------------------------------------------
(* Specifications *)

\* a session nobody uses, for the specifications of the aggregation
CaptureIdle ==
    /\ InitCapture
    /\ user_context_fn = "None"
    /\ collect_fn = "collector.put"

Init == InitCapture /\ InitReporter /\ InitHash

Next ==
    \/ start
    \/ start_listen_before
    \/ start_listen_after
    \/ stop
    \/ stop_remove_before
    \/ stop_remove_after
    \/ start_stop_raise
    \/ \E c \in Conns : before_execute(c)
    \/ \E c \in Conns, r \in ResultKinds, ctx \in Behaviours, cb \in Behaviours :
          after_execute(c, r, ctx, cb)
    \/ collect
    \/ collect_get
    \/ collect_return
    \/ collect_raise

Spec == Init /\ [][Next]_vars

InitStats == CaptureIdle /\ InitReporter /\ InitHash

NextStats ==
    \/ \E q \in StatsInputs : process_record(q, MaxStats)
    \/ finish
    \/ new_report

SpecStats == InitStats /\ [][NextStats]_vars

NextMedian ==
    \/ \E q \in MedianInputs : process_record(q, MaxMedianStats)
    \/ finish
    \/ new_report

SpecMedian == InitStats /\ [][NextMedian]_vars

\* records of one text that differ in their stacks
NextCallers ==
    \/ \E q \in CallerInputs : process_record(q, MaxStats)
    \/ finish
    \/ new_report

SpecCallers == InitStats /\ [][NextCallers]_vars

\* records that differ in their text and parameters, some parameters colliding
NextParams ==
    \/ \E q \in ParamInputs : process_record(q, MaxStats)
    \/ finish
    \/ new_report

SpecParams == InitStats /\ [][NextParams]_vars

\* the session used only as a context manager or decorator, by one thread,
\* while queries execute on the connections
NextScoped ==
    \/ with_enter
    \/ start_listen_before
    \/ start_listen_after
    \/ \E result \in BodyResults : with_exit(result)
    \/ stop_remove_before
    \/ stop_remove_after
    \/ with_leave
    \/ \E c \in Conns : before_execute(c)
    \/ \E c \in Conns, r \in ResultKinds, ctx \in Behaviours, cb \in Behaviours :
          after_execute(c, r, ctx, cb)

SpecScoped == InitStats /\ [][NextScoped]_vars

\* QueryStats objects built from two parameter dicts
NextHash ==
    \E which \in {"first", "second"}, k \in { ParamKeys[i] : i \in 1..Len(ParamKeys) },
       v \in ParamValues : set_param(which, k, v)

SpecHash == InitStats /\ [][NextHash]_vars

----------------------------------------------------------------------------
(* The capture session: properties *)

\* the exception in flight in the control thread, and in the consumer
CtlRaised ==
    IF ctlPc = "start_raise" THEN AlreadyStarted
    ELSE IF ctlPc = "stop_raise" THEN AlreadyStopped
    ELSE NoExc
ColRaised == IF colPc = "collect_raise" THEN OwnCollectFn ELSE NoExc

StartCalled == ctlPc = "idle" /\ ctlPc' \in {"start_raise", "start_listen_before"}
StopCalled == ctlPc = "idle" /\ ctlPc' \in {"stop_raise", "stop_remove_before"}
CollectCalled == colPc = "idle" /\ colPc' \in {"collect_raise", "drain"}
CollectReturned == colPc = "drain" /\ colPc' = "idle"

\* C1: every start() call on a started session raises StateError and changes
\* nothing, every start() call on a stopped session sets the flag and goes on
\* to register the hooks; every stop() call on a stopped session (a fresh one
\* included) raises StateError and changes nothing, every stop() call on a
\* started session clears the flag and goes on to remove the hooks.
C1_StartStopStateError ==
    [][ /\ StartCalled =>
             IF started
             THEN /\ CtlRaised' \in StateError
                  /\ UNCHANGED << started, listeners >>
             ELSE /\ CtlRaised' = NoExc
                  /\ started' = TRUE
        /\ StopCalled =>
             IF ~ started
             THEN /\ CtlRaised' \in StateError
                  /\ UNCHANGED << started, listeners >>
             ELSE /\ CtlRaised' = NoExc
                  /\ started' = FALSE
      ]_vars

\* C1 happens: start() raised on a session a completed start() had started
C1_Witness ==
    /\ ctlPc = "start_raise"
    /\ started
    /\ listeners = [before_execute |-> 1, after_execute |-> 1]

\* C2: on a queue-backed session every collect() that returns, returns exactly
\* the records enqueued after the previous collect() returned, in the order of
\* their enqueueing; with none enqueued since, it returns the empty list.
C2_CollectReturnsNewRecords ==
    [][ (CollectReturned /\ collect_fn = "collector.put") =>
           /\ queries' = SubSeq(enqueued, mark + 1, Len(enqueued))
           /\ (mark = Len(enqueued) => queries' = << >>)
      ]_vars

\* C2 happens: a collect() has returned the one record enqueued after an
\* earlier collect() had returned another
C2_Witness ==
    /\ collect_fn = "collector.put"
    /\ colPc = "idle"
    /\ Len(queries) = 1
    /\ mark = 2

\* C2 happens, the second half: a collect() right after another returned nothing
C2_WitnessEmpty ==
    /\ collect_fn = "collector.put"
    /\ colPc = "idle"
    /\ queries = << >>
    /\ mark >= 1

\* C3: on a session with a caller-supplied collect_fn every collect() call
\* raises ConfigurationError; the session has no queue and nothing is ever put
\* on one; and the callback's calls are, one for one and in order, the records
\* the post-execution hooks have built: a hook that builds a record calls the
\* callback with it, once, in the same step.
C3_CallbackSink ==
    /\ [](collect_fn = "user" =>
             /\ ~ collector.present
             /\ collector.items = << >>
             /\ enqueued = << >>
             /\ callbackCalls = produced)
    /\ [][ collect_fn = "user" =>
             /\ CollectCalled => ColRaised' \in ConfigurationError
             /\ \A c \in Conns :
                  (connPc[c] = "executing" /\ connPc'[c] = "idle"
                     /\ produced' # produced) =>
                  /\ Len(produced') = Len(produced) + 1
                  /\ callbackCalls' = Append(callbackCalls, produced'[Len(produced')])
                  /\ produced'[Len(produced')].conn = c
         ]_vars

\* C3 happens: the callback has been called and collect() has raised
C3_Witness ==
    /\ collect_fn = "user"
    /\ colPc = "collect_raise"
    /\ Len(callbackCalls) >= 2

\* C9: no execution is aborted by a hook: whatever the user-context function,
\* the record's construction or the sink callback do, execute() returns.
C9_HookNeverAbortsQuery ==
    \A c \in Conns : execOutcome[c] # "raised"

\* C10: a record built for an execution whose pre-execution hook ran has the
\* timestamp that hook recorded as its start_time, and no record's start_time
\* is a timestamp recorded for an execution on another connection.
C10_StartTimeOfOwnConnection ==
    [][ \A c \in Conns :
          (connPc[c] = "executing" /\ connPc'[c] = "idle" /\ produced' # produced) =>
             LET r == produced'[Len(produced')] IN
             /\ r.conn = c
             /\ (preTs[c] # NoAttr => r.start_time = preTs[c])
             /\ \A c2 \in Conns \ {c} : r.start_time \notin written[c2]
      ]_vars

\* C10 happens: a record whose execution overlapped one on another connection,
\* that connection's pre-execution hook having run after this record's own
C10_Witness ==
    \E i \in 1..Len(produced) :
       \E c2 \in Conns \ {produced[i].conn} :
          \E t \in written[c2] :
             /\ produced[i].start_time < t
             /\ t < produced[i].end_time

\* C11: a record built for an execution whose pre-execution hook did not run
\* (no start timestamp was recorded for that execution) has start_time =
\* end_time and duration 0.
C11_NoTimestampGivesZeroDuration ==
    [][ \A c \in Conns :
          (connPc[c] = "executing" /\ connPc'[c] = "idle" /\ produced' # produced
             /\ preTs[c] = NoAttr) =>
             LET r == produced'[Len(produced')] IN
             /\ r.start_time = r.end_time
             /\ r.duration = 0
      ]_vars

NoListeners == [before_execute |-> 0, after_execute |-> 0]
BothListeners == [before_execute |-> 1, after_execute |-> 1]

\* C15: a stopped session entered as a context manager (or through the
\* decorator) is started on entry: its flag is set by the entry and the body
\* runs with both hooks registered; every exit, whether the body returned or
\* raised, clears the flag and has both hooks removed when the with statement
\* is left; and what the with statement gives its caller is the body's return
\* value or exception, unchanged.
C15_ScopedStartStop ==
    /\ []((scope = "enter" /\ ctlPc = "idle") =>
             (started /\ listeners = BothListeners))
    /\ [][ /\ (scope = "none" /\ scope' = "enter" /\ ~ started) =>
                (started' /\ CtlRaised' = NoExc)
           /\ (scope = "enter" /\ scope' = "exit") =>
                (bodyResult' \in BodyResults /\ ~ started' /\ CtlRaised' = NoExc)
           /\ (scope = "exit" /\ scope' = "none") =>
                /\ ~ started'
                /\ listeners' = NoListeners
                /\ scopeOutcome' = bodyResult
                /\ scopeOutcome' \in BodyResults
         ]_vars

\* C15 happens: a with statement whose body raised has been left, a query
\* having been profiled inside it
C15_Witness ==
    /\ scope = "none"
    /\ scopeOutcome = [kind |-> "raise", value |-> "ValueError"]
    /\ ~ started
    /\ listeners = NoListeners
    /\ produced # << >>

\* C15 happens, the other exit: the body returned its value
C15_WitnessReturn ==
    /\ scope = "none"
    /\ scopeOutcome = [kind |-> "return", value |-> "rows"]
    /\ ~ started
    /\ listeners = NoListeners

\* the records the collect() call in progress has taken off the queue
InHand == IF colPc = "drain" THEN queries ELSE << >>

\* the position of record r in the order of the enqueueing
EnqueuedAt(r) == CHOOSE i \in 1..Len(enqueued) : enqueued[i] = r

\* C16: with records put on the queue by the hooks of concurrently executing
\* connections and one consumer calling collect() at any time, every record
\* put on the queue is at every moment in exactly one place: returned by one
\* collect() call, taken by the call in progress, or still on the queue; a
\* collect() that returns has returned, it or its predecessors, every record
\* enqueued before; nothing is returned twice; and the records of one
\* connection are returned in the order that connection enqueued them.
C16_EveryRecordCollectedOnce ==
    /\ [](collect_fn = "collector.put" =>
            /\ enqueued = returned \o InHand \o collector.items
            /\ \A i, j \in 1..Len(enqueued) : i # j => enqueued[i] # enqueued[j]
            /\ \A i, j \in 1..Len(returned) :
                 (i < j /\ returned[i].conn = returned[j].conn) =>
                    EnqueuedAt(returned[i]) < EnqueuedAt(returned[j]))
    /\ [][ (CollectReturned /\ collect_fn = "collector.put") =>
              returned' = enqueued
         ]_vars

\* C16 happens: two executions overlapped on two connections, each record
\* came back from a collect() call of its own
C16_Witness ==
    /\ collect_fn = "collector.put"
    /\ colPc = "idle"
    /\ Len(returned) = 2
    /\ returned[1].conn # returned[2].conn
    /\ returned[2].start_time < returned[1].end_time
    /\ Len(queries) = 1
    /\ collector.items = << >>

\* C16 happens, one thread: two records of one connection came back in order
C16_WitnessSameThread ==
    /\ collect_fn = "collector.put"
    /\ colPc = "idle"
    /\ Len(returned) = 2
    /\ returned[1].conn = returned[2].conn

\* C17: a session used as a context manager delivers records only for queries
\* issued within the context: whenever a hook builds a record, the execution
\* was dispatched after the with statement was entered, and it completes
\* before the with statement is left (the time from the call of __enter__ to
\* the return of __exit__ counts as within).
C17_OnlyQueriesWithinContext ==
    [][ \A c \in Conns :
          (connPc[c] = "executing" /\ connPc'[c] = "idle" /\ produced' # produced) =>
             /\ dispatchScope[c] # "none"
             /\ scope # "none"
      ]_vars

\* C21: whenever no start() or stop() call is in progress, after any sequence
\* of such calls, returned or raised, both hooks are registered on the engine
\* if the started flag is true and neither is if it is false; no hook is ever
\* registered more than once; and a start() or stop() call that raises leaves
\* the flag and the registrations as they were, from the call to the raise.
C21_HooksRegisteredIffStarted ==
    /\ [](/\ ctlPc \in {"idle", "start_raise", "stop_raise"} =>
               listeners = (IF started THEN BothListeners ELSE NoListeners)
          /\ listeners.before_execute \in {0, 1}
          /\ listeners.after_execute \in {0, 1})
    /\ [][ (ctlPc' \in {"start_raise", "stop_raise"}
              \/ ctlPc \in {"start_raise", "stop_raise"}) =>
             UNCHANGED << started, listeners >>
         ]_vars

\* C21 happens: stop() raises on a session that had been started and stopped,
\* a query having been profiled in between
C21_Witness ==
    /\ ctlPc = "stop_raise"
    /\ ~ started
    /\ listeners = NoListeners
    /\ produced # << >>

----------------------------------------------------------------------------
(* The aggregation: properties *)

\* the groups of the current Reporter
PerTextGroups == { query_groups[t] : t \in DOMAIN query_groups }
AllGroups == PerTextGroups \cup {all_group}

\* the durations of a group's members, in the order of their adding
Durations(g) == [k \in 1..Len(g.queries) |-> stats[g.queries[k]].duration]

RECURSIVE SumOf(_)
SumOf(ds) == IF ds = << >> THEN 0 ELSE Head(ds) + SumOf(Tail(ds))
Largest(ds) == CHOOSE d \in { ds[k] : k \in 1..Len(ds) } :
                  \A k \in 1..Len(ds) : ds[k] <= d
Smallest(ds) == CHOOSE d \in { ds[k] : k \in 1..Len(ds) } :
                   \A k \in 1..Len(ds) : d <= ds[k]

\* the k-th smallest of the durations ds: fewer than k are below it, at least k
\* are not above it
KthSmallest(ds, k) ==
    CHOOSE d \in { ds[i] : i \in 1..Len(ds) } :
       /\ Cardinality({ i \in 1..Len(ds) : ds[i] < d }) < k
       /\ Cardinality({ i \in 1..Len(ds) : ds[i] <= d }) >= k

\* the statistical median of ds, as a fraction in lowest terms
StatMedian(ds) ==
    LET n == Len(ds) IN
    IF n % 2 = 1
    THEN [num |-> KthSmallest(ds, (n + 1) \div 2), den |-> 1]
    ELSE LET two == KthSmallest(ds, n \div 2) + KthSmallest(ds, (n \div 2) + 1)
         IN IF two % 2 = 0 THEN [num |-> two \div 2, den |-> 1]
                           ELSE [num |-> two, den |-> 2]

\* C4: every group with N >= 1 members has sum = the sum of its members'
\* durations, max = the largest, min = the smallest and mean = sum / N, after
\* every add (durations are >= 0).
C4_RunningAggregates ==
    \A g \in AllGroups :
       Len(g.queries) >= 1 =>
          LET ds == Durations(g)
              total == SumOf(ds)
              n == Len(ds)
          IN /\ g.sum = total
             /\ g.max = Largest(ds)
             /\ g.min = Smallest(ds)
             /\ g.mean.num * n = total * g.mean.den
             /\ g.mean.den >= 1

\* C4 happens: three adds of different durations, none 0, with a mean that is
\* no whole number
C4_Witness ==
    /\ Len(all_group.queries) = 3
    /\ Durations(all_group) = << 2, 5, 1 >>
    /\ all_group.mean = [num |-> 8, den |-> 3]
    /\ all_group.min = 1
    /\ all_group.max = 5

\* C5: after calc_median a group's median is the statistical median of its
\* members' durations, whatever the order of their adding: the middle one of an
\* odd number, the average of the two middle ones of an even number.
C5_MedianOfMembers ==
    repPc = "done" =>
       \A g \in PerTextGroups : g.median = StatMedian(Durations(g))

\* C5 happens: the durations 5, 1, 3, 2 (added in that order) give 2.5
C5_Witness ==
    /\ repPc = "done"
    /\ \E g \in PerTextGroups :
          /\ Durations(g) = << 5, 1, 3, 2 >>
          /\ g.median = [num |-> 5, den |-> 2]

\* C5 happens, odd: the durations 5, 1, 3 give 3
C5_WitnessOdd ==
    /\ repPc = "done"
    /\ \E g \in PerTextGroups :
          /\ Durations(g) = << 5, 1, 3 >>
          /\ g.median = [num |-> 3, den |-> 1]

\* the sum of the values of the dict f
RECURSIVE SumValues(_)
SumValues(f) ==
    IF DOMAIN f = {} THEN 0
    ELSE LET k == CHOOSE x \in DOMAIN f : TRUE
         IN f[k] + SumValues([x \in DOMAIN f \ {k} |-> f[x]])

\* C12: in every state of every group, before and after any adds with any mix
\* of stack texts, the number of members is the sum of the occurrence counts of
\* stacks: len(queries) = sum(stacks.values()).
C12_MembersEqualStackCounts ==
    \A g \in AllGroups : Len(g.queries) = SumValues(g.stacks)

\* C12 happens: three members with two different stack texts, one seen twice
C12_Witness ==
    /\ Len(all_group.queries) = 3
    /\ Cardinality(DOMAIN all_group.stacks) = 2
    /\ \E st \in DOMAIN all_group.stacks : all_group.stacks[st] = 2

\* the positions in the input of the records of text t, ascending
PositionsOf(t) ==
    SelectSeq([i \in 1..Len(stats) |-> i], LAMBDA i : stats[i].text = t)

\* C13: of the records processed so far there is exactly one per-text group
\* for each distinct text; the members of the group of a text are the records
\* of that text and no others, in input order; the members of the
\* all-inclusive group are all the records, in input order; so its member
\* count is the input length and the total of the per-text member counts.
C13_OneGroupPerText ==
    /\ DOMAIN query_groups = { stats[i].text : i \in 1..Len(stats) }
    /\ \A t \in DOMAIN query_groups :
          /\ query_groups[t].text = t
          /\ query_groups[t].queries = PositionsOf(t)
    /\ all_group.queries = [i \in 1..Len(stats) |-> i]
    /\ Len(all_group.queries) = Len(stats)
    /\ Len(all_group.queries) =
          SumValues([t \in DOMAIN query_groups |-> Len(query_groups[t].queries)])

\* C13 happens: _process_stats has returned for three records whose texts
\* alternate
C13_Witness ==
    /\ repPc = "done"
    /\ Len(stats) = 3
    /\ stats[1].text = stats[3].text
    /\ stats[1].text # stats[2].text
    /\ query_groups[stats[1].text].queries = << 1, 3 >>
    /\ query_groups[stats[2].text].queries = << 2 >>

\* the groups of the current Reporter by a key: the text, << >> for all_group
GroupKeys == DOMAIN query_groups \cup { << >> }
GroupAt(k) == IF k = << >> THEN all_group ELSE query_groups[k]
\* the buckets of the current Reporter: a group and a params_hash in it
Buckets ==
    { b \in GroupKeys \X seenHashes : b[2] \in DOMAIN GroupAt(b[1]).params_hashes }
IdOf(b) == GroupAt(b[1]).params_hashes[b[2]].params_id

\* C18: over the adds of all groups of all Reporters of a process the counter
\* never decreases; the ids given to new buckets, in the order of the giving,
\* are strictly increasing, so none is given twice and a bucket made later has
\* a larger id; and the buckets hold those ids: two different buckets hold
\* different ids, none above the counter.
C18_DisplayIdsNeverReused ==
    /\ [](/\ \A i, j \in 1..Len(freshIds) : i < j => freshIds[i] < freshIds[j]
          /\ \A i \in 1..Len(freshIds) : freshIds[i] <= ParamsID
          /\ \A b \in Buckets : \E i \in 1..Len(freshIds) : freshIds[i] = IdOf(b)
          /\ \A a, b \in Buckets : a # b => IdOf(a) # IdOf(b))
    /\ [][ParamsID' >= ParamsID]_vars

\* C18 happens: the second Reporter of the process has made buckets in two
\* groups, after the four of the first
C18_Witness ==
    /\ reports = 2
    /\ Len(freshIds) = 6
    /\ Cardinality(Buckets) = 2
    /\ \A b \in Buckets : IdOf(b) >= 6

\* the change of a group's buckets by the add of the record q
BucketStep(old, new, q) ==
    LET h == q.params_hash IN
    /\ DOMAIN new = DOMAIN old \cup {h}
    /\ \A k \in DOMAIN old \ {h} : new[k] = old[k]
    /\ IF h \in DOMAIN old
       THEN /\ new[h].count = old[h].count + 1
            /\ new[h].params_id = old[h].params_id
            /\ new[h].params = old[h].params
       ELSE /\ new[h].count = 1
            /\ new[h].params_id # None
            /\ new[h].params = q.params

\* the first member of group g with params_hash h
FirstWith(g, h) ==
    stats[g.queries[CHOOSE k \in 1..Len(g.queries) :
                       /\ stats[g.queries[k]].params_hash = h
                       /\ \A j \in 1..(k - 1) : stats[g.queries[j]].params_hash # h]]

\* C19: every add of a record to a group adds 1 to the count of the bucket of
\* the record's params_hash (a new bucket starts at 1) and changes no other
\* bucket; a bucket keeps the id and the params sample it got when it was
\* made, the sample being the params of the first record of that hash; the
\* record's params_id, None before its first add, becomes that add's bucket id
\* and is left as it is by the add to the all-inclusive group; records added
\* earlier are not touched; and the counts of a group's buckets sum to its
\* number of members.
C19_BucketsCountFirstSeenWins ==
    /\ [](\A g \in AllGroups :
            /\ SumValues([h \in DOMAIN g.params_hashes |-> g.params_hashes[h].count])
                  = Len(g.queries)
            /\ \A h \in DOMAIN g.params_hashes :
                  g.params_hashes[h].params = FirstWith(g, h).params)
    /\ [][ Len(stats') = Len(stats) + 1 =>
             LET q == stats'[Len(stats')]
                 t == q.text
             IN /\ BucketStep(Get(query_groups, t, QueryGroup).params_hashes,
                              query_groups'[t].params_hashes, q)
                /\ BucketStep(all_group.params_hashes, all_group'.params_hashes, q)
                /\ \A t2 \in DOMAIN query_groups \ {t} :
                      query_groups'[t2] = query_groups[t2]
                /\ q.params_id = query_groups'[t].params_hashes[q.params_hash].params_id
                /\ \A k \in 1..Len(stats) : stats'[k] = stats[k]
         ]_vars

\* C19 happens: a bucket counts two records of colliding parameters and shows
\* the first one's; the second record's params_id is its per-text bucket's id,
\* not the id of the bucket of the all-inclusive group
C19_Witness ==
    /\ Len(stats) = 2
    /\ stats[1].params = "p1"
    /\ stats[2].params = "p3"
    /\ stats[1].text # stats[2].text
    /\ all_group.params_hashes[11] = [count |-> 2, params_id |-> 3, params |-> "p1"]
    /\ stats[2].params_id = 4

\* the positions of the frames of a stack whose path is outside the library
UserFrames(stack) == { i \in 1..Len(stack) : ~ HasSqlalchemy(stack[i].filename) }

\* C20: for every member of every group, callers[the member's stack text] is
\* the innermost frame of the member's stack whose path does not contain
\* 'sqlalchemy': no frame outside the library lies after it in the stack; it
\* is None when every frame is the library's or the stack is empty; and
\* callers has entries for the stack texts of the members only.
C20_CallerIsInnermostUserFrame ==
    \A g \in AllGroups :
       /\ DOMAIN g.callers = { stats[g.queries[k]].stack_text : k \in 1..Len(g.queries) }
       /\ \A k \in 1..Len(g.queries) :
             LET q == stats[g.queries[k]]
                 caller == g.callers[q.stack_text]
             IN IF UserFrames(q.stack) = {}
                THEN caller = NoFrame
                ELSE \E i \in UserFrames(q.stack) :
                        /\ caller = q.stack[i]
                        /\ \A j \in UserFrames(q.stack) : j <= i

\* C20 happens: a stack with a host frame between library frames, a stack of
\* library frames only, and the empty stack
C20_Witness ==
    /\ Len(all_group.queries) = 3
    /\ stats[1].stack = << AppFrame, LibFrame, HelperFrame, LibFrame >>
    /\ all_group.callers[stats[1].stack_text] = HelperFrame
    /\ stats[2].stack = << LibFrame >>
    /\ all_group.callers[stats[2].stack_text] = NoFrame
    /\ stats[3].stack = << >>
    /\ all_group.callers[stats[3].stack_text] = NoFrame

\* C6: when _process_stats has returned for a non-empty sequence of records,
\* the median of every per-text group and of the all-inclusive group is the
\* median of its members' durations.
C6_AllGroupsFinalized ==
    (repPc = "done" /\ stats # << >>) =>
       \A g \in AllGroups : g.median = StatMedian(Durations(g))

\* C7: a params_hash that has a bucket in two groups has the same display id in
\* both.
C7_SameIdAcrossGroups ==
    \A a, b \in AllGroups :
       \A h \in DOMAIN a.params_hashes \cap DOMAIN b.params_hashes :
          a.params_hashes[h].params_id = b.params_hashes[h].params_id

\* C8: the display-id counter has advanced by exactly one for each params_hash
\* value an add() has seen in the process.
C8_CounterCountsHashes ==
    ParamsID = 1 + Cardinality(seenHashes)

----------------------------------------------------------------------------
(* The parameter hasher: properties *)

\* the key -> value pairs of a dict
Pairs(d) == { << d[i].key, d[i].value >> : i \in 1..Len(d) }

\* the integer a is in 0 .. 2^32 - 1: nothing above its low HashShift bits
InUnsigned32(a) ==
    /\ \A i \in 1..IntLimbs : a[i] \in 0..(LimbBase - 1)
    /\ \A i \in 1..IntLimbs : i > HashShift \div LimbBits => a[i] = 0

\* C14: two dicts holding the same key -> value pairs have the same
\* params_hash, whatever the order their keys were inserted in; and every
\* params_hash is an integer in 0 .. 2^32 - 1, also for values whose hash is
\* negative or wider than 32 bits.
C14_HashOfPairsIn32Bits ==
    /\ Pairs(hparams["first"]) = Pairs(hparams["second"]) =>
          hvalue["first"] = hvalue["second"]
    /\ \A which \in DOMAIN hvalue : InUnsigned32(hvalue[which])

\* C14 happens: the same two pairs inserted in opposite orders, one value with
\* a negative hash wider than 32 bits, the other with hash(-1) = -2
C14_Witness ==
    /\ hparams["first"] = << [key |-> "a", value |-> "-3 * 2**48"],
                             [key |-> "b", value |-> "-1"] >>
    /\ hparams["second"] = << [key |-> "b", value |-> "-1"],
                              [key |-> "a", value |-> "-3 * 2**48"] >>
    /\ hvalue["first"] = hvalue["second"]
    /\ hvalue["first"] # PyInt(0)

====
